---- MODULE Spec2Model ----
(***************************************************************************)
(* ClientGrpcProxy (packages/microservices/client/client-grpc.ts): the     *)
(* adapters that turn one gRPC method invocation into an rxjs Observable.  *)
(*                                                                         *)
(* One Response Stream (the Observable returned by one invocation of a     *)
(* service method) is modelled together with the subscription the         *)
(* consumer currently holds on it: the Call Handle the subscriber function *)
(* opened, the closure variables of that function, the rxjs Subscriber     *)
(* that stands between the adapter and the consumer, and the Upstream      *)
(* Subscription on a consumer-supplied request stream.  The transport, the *)
(* request stream and the consumer are the environment: their events are   *)
(* the actions' inputs.                                                    *)
(***************************************************************************)
EXTENDS Integers, Sequences, FiniteSets, TLC

\* ------------------------------------------------------------------ bounds
\* response values delivered to the consumer per subscription
MaxData == 2
\* destroy() calls on one Call Handle (one per cancelled-class error reported)
MaxDestroys == 2
\* request values the Upstream Subscription receives
MaxUpstream == 2
\* unsubscribe() calls of the consumer on one subscription
MaxUnsubscribes == 2

\* ------------------------------------------------------- program constants
GRPC_CANCELLED == "Cancelled"
\* the generic cancellation status code tested by the client-streaming callback
CANCELLED_CODE == 1

\* --------------------------------------------------------------- domains
\* request values the request stream emits
Values == {"v1", "v2"}
\* response values the transport reports
Responses == {"r1"}
\* the positional argument lists of an invocation
ArgLists == {<<"falsy">>, <<"plain", "metadata">>, <<"subject">>,
             <<"subject", "metadata">>}
\* error objects the transport (or the request stream) can report
Errors == {[details |-> GRPC_CANCELLED, code |-> CANCELLED_CODE],
           [details |-> "Cancelled on client", code |-> CANCELLED_CODE],
           [details |-> "Unavailable", code |-> 14]}
\* error objects the request stream can raise
UpstreamErrors == {[details |-> GRPC_CANCELLED, code |-> CANCELLED_CODE],
                   [details |-> "Unavailable", code |-> 14]}
\* argument values: "subject" is an object with a subscribe function, "plain"
\* a truthy request without one, "metadata" a metadata object, "falsy" and
\* "null" falsy values
Methods == [requestStream : BOOLEAN, responseStream : BOOLEAN]
\* services of the loaded package, and a name the package does not define
Services == {"HeroService"}
ServiceNames == Services \cup {"MissingService"}

VARIABLES
    method,      \* client[methodName]: the Method Descriptor
    serviceMethod, \* which adapter createServiceMethod returned
    args,        \* the positional arguments of the invocation
    call,        \* the Call Handle of the current subscription
    closure,     \* closure variables of the subscriber function
    observer,    \* the rxjs Subscriber handed to the subscriber function
    upstream,    \* the Subscription on the request stream
    hist,        \* history of the current subscription (what the consumer did)
    subscribes,  \* subscribe() calls on this Response Stream so far
    opened,      \* calls opened for this Response Stream so far
    upstreams,   \* request-stream subscriptions made for this Response Stream so far
    lastOp,      \* the operation that produced the current state
    registry,    \* this.clients and this.grpcClients of the proxy
    outcome      \* how the last operation on the proxy came back to its caller

vars == <<method, serviceMethod, args, call, closure, observer, upstream, hist,
          subscribes, opened, upstreams, lastOp, registry, outcome>>

\* ------------------------------------------------------------ JS helpers
Truthy(a) == a \in {"subject", "plain", "metadata"}
\* isFunction(x.subscribe)
HasSubscribeFn(a) == a = "subject"
\* args[i], undefined when absent
ArgAt(as, i) == IF Len(as) >= i THEN as[i] ELSE "undefined"
\* upstreamSubjectOrData && isFunction(upstreamSubjectOrData.subscribe)
isUpstreamSubject(as) == Truthy(ArgAt(as, 1)) /\ HasSubscribeFn(ArgAt(as, 1))

\* ClientProxy.serializeError: the Error Normalizer
serializeError(error) == [normalized |-> TRUE, details |-> error.details, code |-> error.code]

\* ----------------------------------------------------- state before subscribe
NoCall == [open |-> FALSE, opens |-> 0, args |-> <<>>, finished |-> FALSE, listeners |-> {},
           writes |-> <<>>, endCalls |-> 0, cancelCalls |-> 0, destroyCalls |-> 0,
           emitted |-> 0]
NoClosure == [kind |-> "none", isClientCanceled |-> FALSE, upstreamSubscription |-> "null"]
NoObserver == [isStopped |-> FALSE, closed |-> FALSE, delivered |-> <<>>, teardowns |-> 0]
NoUpstream == [subscribed |-> FALSE, closed |-> FALSE, unsubscribeCalls |-> 0,
               received |-> <<>>, completed |-> FALSE]
NoHist == [unsubscribes |-> 0, cancelled |-> FALSE, finishedAtCancel |-> FALSE]

Cur == [call |-> call, closure |-> closure, observer |-> observer,
        upstream |-> upstream, hist |-> hist]

Becomes(st) ==
    /\ call' = st.call
    /\ closure' = st.closure
    /\ observer' = st.observer
    /\ upstream' = st.upstream
    /\ hist' = st.hist

\* events the consumer's handlers receive
NoError == [normalized |-> FALSE, details |-> "none", code |-> 0]
NextEvent(value) == [type |-> "next", value |-> value, error |-> NoError]
ErrorEvent(err) == [type |-> "error", value |-> "none", error |-> err]
CompleteEvent == [type |-> "complete", value |-> "none", error |-> NoError]

\* ------------------------------------------------- the Upstream Subscription
\* Subscription.unsubscribe() on the Upstream Subscription: closes it; a
\* second call finds it closed
UpstreamUnsubscribe(st) ==
    [st EXCEPT !.upstream.unsubscribeCalls = @ + 1, !.upstream.closed = TRUE]

\* ------------------------------------------- teardown of the Response Stream
\* mutant: the teardown cancels without looking at call.finished
StreamTeardownAlwaysCancel(st) ==
    LET s1 == IF st.closure.upstreamSubscription = "sub"
              THEN [UpstreamUnsubscribe(st) EXCEPT !.closure.upstreamSubscription = "null"]
              ELSE st
    IN  [s1 EXCEPT !.closure.isClientCanceled = TRUE, !.call.cancelCalls = @ + 1]

\* createStreamServiceMethod: the function the subscriber function returns
StreamTeardown(st) ==
    LET s1 == IF st.closure.upstreamSubscription = "sub"
              THEN [UpstreamUnsubscribe(st) EXCEPT !.closure.upstreamSubscription = "null"]
              ELSE st
    IN  IF s1.call.finished
        THEN s1
        ELSE [s1 EXCEPT !.closure.isClientCanceled = TRUE, !.call.cancelCalls = @ + 1]

\* mutant: the teardown marks the cancellation but never calls cancel()
UnaryStreamTeardownNoCancel(st) ==
    LET s1 == UpstreamUnsubscribe(st)
    IN  IF ~s1.call.finished
        THEN [s1 EXCEPT !.closure.isClientCanceled = TRUE]
        ELSE s1

\* mutant: the teardown cancels the call but leaves the request stream subscribed
UnaryStreamTeardownKeepsUpstream(st) ==
    IF ~st.call.finished
    THEN [st EXCEPT !.closure.isClientCanceled = TRUE, !.call.cancelCalls = @ + 1]
    ELSE st

\* createUnaryServiceMethod, client-streaming form: the returned function
UnaryStreamTeardown(st) ==
    LET s1 == UpstreamUnsubscribe(st)
    IN  IF ~s1.call.finished
        THEN [s1 EXCEPT !.closure.isClientCanceled = TRUE, !.call.cancelCalls = @ + 1]
        ELSE s1

\* createUnaryServiceMethod, plain form: the returned function
UnaryTeardown(st) ==
    IF ~st.call.finished
    THEN [st EXCEPT !.call.cancelCalls = @ + 1]
    ELSE st

Teardown(st) ==
    CASE st.closure.kind = "stream" -> StreamTeardown(st)
      [] st.closure.kind = "unaryStream" -> UnaryStreamTeardown(st)
      [] st.closure.kind = "unaryPlain" -> UnaryTeardown(st)
      [] OTHER -> st

\* ------------------------------------------------------ the rxjs Subscriber
\* Subscriber.unsubscribe(): the first call stops the subscriber and runs the
\* teardown the subscriber function returned; later calls do nothing
SubscriberUnsubscribe(st) ==
    IF st.observer.closed
    THEN st
    ELSE Teardown([st EXCEPT !.observer.isStopped = TRUE,
                             !.observer.closed = TRUE,
                             !.observer.teardowns = @ + 1])

\* the consumer calls unsubscribe() on the subscription it holds
ConsumerUnsubscribe(st) ==
    LET first == ~st.observer.closed
        h == [st.hist EXCEPT !.unsubscribes = @ + 1,
                             !.cancelled = @ \/ first,
                             !.finishedAtCancel = IF first THEN st.call.finished ELSE @]
    IN  SubscriberUnsubscribe([st EXCEPT !.hist = h])

\* mutant: a value is delivered to a stopped subscriber too
ObserverNextUnguarded(st, value, reenter) ==
    LET s1 == [st EXCEPT !.observer.delivered = Append(@, NextEvent(value))]
    IN  IF reenter THEN ConsumerUnsubscribe(s1) ELSE s1

\* observer.next(value): dropped once the subscriber is stopped; the consumer's
\* handler runs inside the call and may unsubscribe there (reenter)
ObserverNext(st, value, reenter) ==
    IF st.observer.isStopped
    THEN st
    ELSE LET s1 == [st EXCEPT !.observer.delivered =
                                  Append(@, NextEvent(value))]
         IN  IF reenter THEN ConsumerUnsubscribe(s1) ELSE s1

\* mutant: an error is delivered to a stopped subscriber too
ObserverErrorUnguarded(st, err) ==
    SubscriberUnsubscribe(
        [st EXCEPT !.observer.isStopped = TRUE,
                   !.observer.delivered = Append(@, ErrorEvent(err))])

\* observer.error(err): dropped once stopped; else delivered, then unsubscribe
ObserverError(st, err) ==
    IF st.observer.isStopped
    THEN st
    ELSE SubscriberUnsubscribe(
             [st EXCEPT !.observer.isStopped = TRUE,
                        !.observer.delivered = Append(@, ErrorEvent(err))])

\* mutant: completion is delivered to a stopped subscriber too
ObserverCompleteUnguarded(st) ==
    SubscriberUnsubscribe(
        [st EXCEPT !.observer.isStopped = TRUE,
                   !.observer.delivered = Append(@, CompleteEvent)])

\* observer.complete(): dropped once stopped; else delivered, then unsubscribe
ObserverComplete(st) ==
    IF st.observer.isStopped
    THEN st
    ELSE SubscriberUnsubscribe(
             [st EXCEPT !.observer.isStopped = TRUE,
                        !.observer.delivered = Append(@, CompleteEvent)])

\* ------------------------------------------------------- Call Handle calls
CallDestroy(st) == [st EXCEPT !.call.destroyCalls = @ + 1]
CallRemoveAllListeners(st) == [st EXCEPT !.call.listeners = {}]
CallWrite(st, val) == [st EXCEPT !.call.writes = Append(@, val)]
CallEndRequest(st) == [st EXCEPT !.call.endCalls = @ + 1]

\* ------------------------------------- createStreamServiceMethod: listeners
\* mutant: the 'data' listener hands the value to the consumer directly
StreamOnDataUnguarded(st, data, reenter) ==
    [st EXCEPT !.observer.delivered = Append(@, NextEvent(data))]

\* call.on('data', data => observer.next(data))
StreamOnData(st, data, reenter) == ObserverNext(st, data, reenter)

\* mutant: a 'Cancelled' error is swallowed whoever cancelled
StreamOnErrorSwallowAll(st, error) ==
    IF error.details = GRPC_CANCELLED
    THEN CallDestroy(st)
    ELSE ObserverError(st, serializeError(error))

\* call.on('error', error => ...)
StreamOnError(st, error) ==
    LET cancelledErr == error.details = GRPC_CANCELLED
        s1 == IF cancelledErr THEN CallDestroy(st) ELSE st
    IN  IF cancelledErr /\ s1.closure.isClientCanceled
        THEN s1
        ELSE ObserverError(s1, serializeError(error))

\* mutant: the 'end' listener unsubscribes but keeps the reference
StreamOnEndKeepsReference(st) ==
    LET s1 == IF st.closure.upstreamSubscription = "sub"
              THEN UpstreamUnsubscribe(st)
              ELSE st
    IN  ObserverComplete(CallRemoveAllListeners(s1))

\* call.on('end', () => ...)
StreamOnEnd(st) ==
    LET s1 == IF st.closure.upstreamSubscription = "sub"
              THEN [UpstreamUnsubscribe(st) EXCEPT !.closure.upstreamSubscription = "null"]
              ELSE st
    IN  ObserverComplete(CallRemoveAllListeners(s1))

\* ------------------------------------ createUnaryServiceMethod: callbacks
\* mutant: the callback emits the value and forgets to complete
UnarySuccessNoComplete(st, data, reenter) == ObserverNext(st, data, reenter)

\* the value branch of both completion callbacks
UnarySuccess(st, data, reenter) == ObserverComplete(ObserverNext(st, data, reenter))

\* client-streaming form: (error, data) => ... with an error
UnaryStreamCallbackError(st, error) ==
    LET cancelledErr == error.details = GRPC_CANCELLED \/ error.code = CANCELLED_CODE
        s1 == IF cancelledErr THEN CallDestroy(st) ELSE st
    IN  IF cancelledErr /\ s1.closure.isClientCanceled
        THEN s1
        ELSE ObserverError(s1, serializeError(error))

\* plain form: (error, data) => ... with an error
UnaryCallbackError(st, error) == ObserverError(st, serializeError(error))

\* ------------------------------------------------- the subscriber functions
\* mutant: the dispatcher looks at the request side of the method
createServiceMethodByRequest(m) == IF m.requestStream THEN "stream" ELSE "unary"

\* createServiceMethod: the adapter chosen for the method
createServiceMethod(m) == IF m.responseStream THEN "stream" ELSE "unary"

\* mutant: the request side is treated as a stream on the method's flag alone
StreamSubscriberByFlagOnly(m, as) ==
    LET up == m.requestStream
    IN  [call |-> [NoCall EXCEPT !.open = TRUE, !.opens = 1,
                                 !.args = IF up THEN <<ArgAt(as, 2)>> ELSE as,
                                 !.listeners = {"data", "error", "end"}],
         closure |-> [kind |-> "stream", isClientCanceled |-> FALSE,
                      upstreamSubscription |-> IF up THEN "sub" ELSE "null"],
         observer |-> NoObserver,
         upstream |-> [NoUpstream EXCEPT !.subscribed = up],
         hist |-> NoHist]

\* mutant: the call is opened in both ways instead of one of them
StreamSubscriberOpensBoth(m, as) ==
    LET isRequestStream == m.requestStream
        up == isRequestStream /\ isUpstreamSubject(as)
    IN  [call |-> [NoCall EXCEPT !.open = TRUE, !.opens = 2,
                                 !.args = IF up THEN <<ArgAt(as, 2)>> ELSE as,
                                 !.listeners = {"data", "error", "end"}],
         closure |-> [kind |-> "stream", isClientCanceled |-> FALSE,
                      upstreamSubscription |-> IF up THEN "sub" ELSE "null"],
         observer |-> NoObserver,
         upstream |-> [NoUpstream EXCEPT !.subscribed = up],
         hist |-> NoHist]

\* createStreamServiceMethod: new Observable(observer => { ... })
StreamSubscriber(m, as) ==
    LET isRequestStream == m.requestStream
        up == isRequestStream /\ isUpstreamSubject(as)
    IN  [call |-> [NoCall EXCEPT !.open = TRUE, !.opens = 1,
                                 !.args = IF up THEN <<ArgAt(as, 2)>> ELSE as,
                                 !.listeners = {"data", "error", "end"}],
         closure |-> [kind |-> "stream", isClientCanceled |-> FALSE,
                      upstreamSubscription |-> IF up THEN "sub" ELSE "null"],
         observer |-> NoObserver,
         upstream |-> [NoUpstream EXCEPT !.subscribed = up],
         hist |-> NoHist]

\* createUnaryServiceMethod, client-streaming form: new Observable(observer => ...)
UnaryStreamSubscriber(m, as) ==
    LET maybeMetadata == ArgAt(as, 2)
        callArgs == IF Truthy(maybeMetadata)
                    THEN <<maybeMetadata, "callback">>
                    ELSE <<"callback">>
    IN  [call |-> [NoCall EXCEPT !.open = TRUE, !.opens = 1, !.args = callArgs,
                                 !.listeners = {"callback"}],
         closure |-> [kind |-> "unaryStream", isClientCanceled |-> FALSE,
                      upstreamSubscription |-> "sub"],
         observer |-> NoObserver,
         upstream |-> [NoUpstream EXCEPT !.subscribed = TRUE],
         hist |-> NoHist]

\* createUnaryServiceMethod, plain form: new Observable(observer => ...)
UnaryPlainSubscriber(m, as) ==
    [call |-> [NoCall EXCEPT !.open = TRUE, !.opens = 1, !.args = as \o <<"callback">>,
                             !.listeners = {"callback"}],
     closure |-> [kind |-> "unaryPlain", isClientCanceled |-> FALSE,
                  upstreamSubscription |-> "null"],
     observer |-> NoObserver,
     upstream |-> NoUpstream,
     hist |-> NoHist]

\* createUnaryServiceMethod: which Observable the invocation returns
UnarySubscriber(m, as) ==
    IF m.requestStream /\ isUpstreamSubject(as)
    THEN UnaryStreamSubscriber(m, as)
    ELSE UnaryPlainSubscriber(m, as)

\* ------------------------------------------------ operations of the proxy
\* how a call on the proxy comes back: a value, a synchronous throw, or (from
\* an async method) a promise that rejects
Returned == [how |-> "return", message |-> "none"]
Thrown(message) == [how |-> "throw", message |-> message]
Rejected(message) == [how |-> "reject", message |-> message]

\* get status(): never
status == Thrown("The \"status\" attribute is not supported by the gRPC transport")
\* public async connect(): Promise<any>
connect == Rejected("The \"connect()\" method is not supported in gRPC mode.")
\* public send(pattern, data)
send == Thrown("Method is not supported in gRPC mode. Use ClientGrpc instead (learn more in the documentation).")
\* protected publish(packet, callback)
publish == Thrown("Method is not supported in gRPC mode. Use ClientGrpc instead (learn more in the documentation).")
\* protected async dispatchEvent(packet): Promise<any>
dispatchEvent == Rejected("Method is not supported in gRPC mode. Use ClientGrpc instead (learn more in the documentation).")
\* mutant: on() returns without raising anything
onSilent == Returned

\* public on(event, callback)
on == Thrown("Method is not supported in gRPC mode.")
\* public unwrap<T>(): T
unwrap == Thrown("Method is not supported in gRPC mode.")

UnsupportedOps == {"status", "connect", "send", "publish", "dispatchEvent", "on", "unwrap"}
ProxyOp(op) ==
    CASE op = "status" -> status
      [] op = "connect" -> connect
      [] op = "send" -> send
      [] op = "publish" -> publish
      [] op = "dispatchEvent" -> dispatchEvent
      [] op = "on" -> on
      [] op = "unwrap" -> unwrap

\* getClient(name): a loaded package that has the service
getClient(reg, name) == name \in reg.grpcClients

\* getService(name) -> getClientByServiceName(name): the registry afterwards
getService(reg, name) ==
    IF getClient(reg, name)
    THEN [reg EXCEPT !.clients = @ \cup {name}]
    ELSE reg

\* close(): every client closed, the registry emptied
close(reg) == [clients |-> {}, grpcClients |-> {}]

\* ------------------------------------------------------------------ actions
\* the operation a step performed and the error object it carried
Op(name, error) == [name |-> name, error |-> error]

Init ==
    /\ method \in Methods
    /\ args \in ArgLists
    /\ serviceMethod = createServiceMethod(method)
    /\ call = NoCall
    /\ closure = NoClosure
    /\ observer = NoObserver
    /\ upstream = NoUpstream
    /\ hist = NoHist
    /\ subscribes = 0
    /\ opened = 0
    /\ upstreams = 0
    /\ lastOp = Op("invoke", NoError)
    /\ registry = [clients |-> {"HeroService"}, grpcClients |-> Services]
    /\ outcome = Returned

\* the consumer subscribes to the Response Stream: the subscriber function runs
Subscribe ==
    /\ closure.kind = "none"
    /\ Becomes(IF serviceMethod = "stream"
               THEN StreamSubscriber(method, args)
               ELSE UnarySubscriber(method, args))
    /\ subscribes' = subscribes + 1
    /\ opened' = opened + call'.opens
    /\ upstreams' = upstreams + (IF upstream'.subscribed THEN 1 ELSE 0)
    /\ lastOp' = Op("Subscribe", NoError)
    /\ UNCHANGED <<method, serviceMethod, args, registry, outcome>>

\* the consumer unsubscribes (again)
Unsubscribe ==
    /\ closure.kind # "none"
    /\ hist.unsubscribes < MaxUnsubscribes
    /\ Becomes(ConsumerUnsubscribe(Cur))
    /\ lastOp' = Op("Unsubscribe", NoError)
    /\ UNCHANGED <<method, serviceMethod, args, subscribes, opened, upstreams, registry, outcome>>

\* the transport can fire an event the adapter listens to
CanFire(listener) ==
    /\ call.open
    /\ listener \in call.listeners
\* room for one more value in the consumer's history
CanDeliver == Len(observer.delivered) < MaxData

\* the transport emits 'data'
CallData ==
    /\ CanFire("data")
    /\ CanDeliver
    /\ \E data \in Responses, reenter \in BOOLEAN :
         /\ Becomes(StreamOnData(Cur, data, reenter))
         /\ lastOp' = Op("CallData", NoError)
    /\ UNCHANGED <<method, serviceMethod, args, subscribes, opened, upstreams, registry, outcome>>

\* the transport emits 'error'
CallError ==
    /\ CanFire("error")
    /\ call.destroyCalls < MaxDestroys
    /\ \E error \in Errors :
         /\ Becomes(StreamOnError(Cur, error))
         /\ lastOp' = Op("CallError", error)
    /\ UNCHANGED <<method, serviceMethod, args, subscribes, opened, upstreams, registry, outcome>>

\* the transport emits 'end'
CallEnd ==
    /\ CanFire("end")
    /\ Becomes(StreamOnEnd(Cur))
    /\ lastOp' = Op("CallEnd", NoError)
    /\ UNCHANGED <<method, serviceMethod, args, subscribes, opened, upstreams, registry, outcome>>

\* the transport invokes the completion callback with a value
CallbackValue ==
    /\ CanFire("callback")
    /\ CanDeliver
    /\ \E data \in Responses, reenter \in BOOLEAN :
         /\ Becomes(UnarySuccess(Cur, data, reenter))
         /\ lastOp' = Op("CallbackValue", NoError)
    /\ UNCHANGED <<method, serviceMethod, args, subscribes, opened, upstreams, registry, outcome>>

\* the transport invokes the completion callback with an error
CallbackError ==
    /\ CanFire("callback")
    /\ call.destroyCalls < MaxDestroys
    /\ \E error \in Errors :
         /\ Becomes(IF closure.kind = "unaryStream"
                    THEN UnaryStreamCallbackError(Cur, error)
                    ELSE UnaryCallbackError(Cur, error))
         /\ lastOp' = Op("CallbackError", error)
    /\ UNCHANGED <<method, serviceMethod, args, subscribes, opened, upstreams, registry, outcome>>

\* the transport marks the call finished
CallFinished ==
    /\ call.open
    /\ ~call.finished
    /\ Becomes([Cur EXCEPT !.call.finished = TRUE])
    /\ lastOp' = Op("CallFinished", NoError)
    /\ UNCHANGED <<method, serviceMethod, args, subscribes, opened, upstreams, registry, outcome>>

\* ---------------------------------------------- the request stream's events
\* the adapter subscribed to the request stream of this invocation
CanEmit == upstream.subscribed

\* mutant: the request values reach the call in reverse order
UpstreamOnNextReversed(st, val) ==
    IF st.upstream.closed
    THEN st
    ELSE [st EXCEPT !.upstream.received = Append(@, val),
                    !.call.writes = <<val>> \o @]

\* (val) => call.write(val)
UpstreamOnNext(st, val) ==
    IF st.upstream.closed
    THEN st
    ELSE CallWrite([st EXCEPT !.upstream.received = Append(@, val)], val)

\* mutant: a request-stream error just ends the request side of the call
UpstreamOnErrorEndsCall(st, err) ==
    IF st.upstream.closed
    THEN st
    ELSE CallEndRequest([st EXCEPT !.upstream.closed = TRUE])

\* (err) => call.emit('error', err): the call's 'error' listeners run
UpstreamOnError(st, err) ==
    IF st.upstream.closed
    THEN st
    ELSE LET s1 == [st EXCEPT !.upstream.closed = TRUE, !.call.emitted = @ + 1]
         IN  IF "error" \in s1.call.listeners THEN StreamOnError(s1, err) ELSE s1

\* () => call.end()
UpstreamOnComplete(st) ==
    IF st.upstream.closed
    THEN st
    ELSE CallEndRequest([st EXCEPT !.upstream.closed = TRUE, !.upstream.completed = TRUE])

UpstreamNext ==
    /\ CanEmit
    /\ upstream.closed \/ Len(upstream.received) < MaxUpstream
    /\ \E val \in Values :
         /\ Becomes(UpstreamOnNext(Cur, val))
         /\ lastOp' = Op("UpstreamNext", NoError)
    /\ UNCHANGED <<method, serviceMethod, args, subscribes, opened, upstreams, registry, outcome>>

UpstreamError ==
    /\ CanEmit
    /\ \E err \in UpstreamErrors :
         /\ Becomes(UpstreamOnError(Cur, err))
         /\ lastOp' = Op("UpstreamError", err)
    /\ UNCHANGED <<method, serviceMethod, args, subscribes, opened, upstreams, registry, outcome>>

UpstreamComplete ==
    /\ CanEmit
    /\ Becomes(UpstreamOnComplete(Cur))
    /\ lastOp' = Op("UpstreamComplete", NoError)
    /\ UNCHANGED <<method, serviceMethod, args, subscribes, opened, upstreams, registry, outcome>>

Next ==
    \/ Subscribe
    \/ Unsubscribe
    \/ CallData
    \/ CallError
    \/ CallEnd
    \/ CallbackValue
    \/ CallbackError
    \/ CallFinished
    \/ UpstreamNext
    \/ UpstreamError
    \/ UpstreamComplete

Spec == Init /\ [][Next]_vars

\* --------------------------- attaching again to the same Response Stream
MaxSubscribes == 2

\* the consumer subscribes again to the Observable the invocation returned,
\* after its previous subscription was closed: the subscriber function runs
\* again, with new closure variables and a new Subscriber
Resubscribe ==
    /\ closure.kind # "none"
    /\ observer.closed
    /\ subscribes < MaxSubscribes
    /\ Becomes(IF serviceMethod = "stream"
               THEN StreamSubscriber(method, args)
               ELSE UnarySubscriber(method, args))
    /\ subscribes' = subscribes + 1
    /\ opened' = opened + call'.opens
    /\ upstreams' = upstreams + (IF upstream'.subscribed THEN 1 ELSE 0)
    /\ lastOp' = Op("Subscribe", NoError)
    /\ UNCHANGED <<method, serviceMethod, args, registry, outcome>>

\* an invocation with metadata, its request a stream or a plain object
InitAttach == Init /\ args \in {<<"plain", "metadata">>, <<"subject", "metadata">>}

NextAttach ==
    \/ Subscribe
    \/ Resubscribe
    \/ Unsubscribe
    \/ CallData
    \/ CallError
    \/ CallEnd
    \/ CallbackValue
    \/ CallbackError
    \/ CallFinished
    \/ UpstreamComplete

SpecAttach == InitAttach /\ [][NextAttach]_vars

\* ------------------------------------- the proxy beside a running invocation
\* the invocation's own state
invocation == <<method, serviceMethod, args, call, closure, observer, upstream,
                hist, subscribes, opened, upstreams>>

\* getService(name) is called
GetService ==
    /\ \E name \in ServiceNames :
         /\ registry' = getService(registry, name)
         /\ outcome' = IF getClient(registry, name)
                       THEN Returned
                       ELSE Thrown("InvalidGrpcServiceException")
    /\ lastOp' = Op("getService", NoError)
    /\ UNCHANGED invocation

\* close() is called
Close ==
    /\ registry' = close(registry)
    /\ outcome' = Returned
    /\ lastOp' = Op("close", NoError)
    /\ UNCHANGED invocation

\* a connection-oriented or pub/sub-oriented member of the proxy is used
Unsupported ==
    /\ \E op \in UnsupportedOps :
         /\ outcome' = ProxyOp(op)
         /\ lastOp' = Op(op, NoError)
    /\ UNCHANGED <<invocation, registry>>

\* one invocation with a plain request; the request stream plays no part
InitProxy == Init /\ args = <<"plain", "metadata">>

NextProxy ==
    \/ Subscribe
    \/ Unsubscribe
    \/ CallData
    \/ CallError
    \/ CallEnd
    \/ CallbackValue
    \/ CallbackError
    \/ CallFinished
    \/ GetService
    \/ Close
    \/ Unsupported

SpecProxy == InitProxy /\ [][NextProxy]_vars

\* ------------------------------------------------------------ vocabulary
Delivered == observer.delivered
TypesOf(events) == [i \in 1..Len(events) |-> events[i].type]
IsTerminal(ev) == ev.type \in {"error", "complete"}
Count(events, type) == Cardinality({i \in 1..Len(events) : events[i].type = type})
IsUnary == closure.kind \in {"unaryStream", "unaryPlain"}
IsStreaming == closure.kind = "stream"
\* details 'Cancelled', or the generic cancellation status code
IsCancelledClass(error) == error.details = GRPC_CANCELLED \/ error.code = CANCELLED_CODE
\* the consumer unsubscribed before a terminal event while the call was not finished
ConsumerCancelled == hist.cancelled /\ ~hist.finishedAtCancel

\* ------------------------------------------------------------------ C1
\* C1 as stated: a unary Response Stream delivers at most one value, and
\* whenever it has delivered a value it has delivered completion right after it.
C1_ValueThenCompletion ==
    (IsUnary /\ Count(Delivered, "next") >= 1)
        => TypesOf(Delivered) = <<"next", "complete">>

\* C1 amended: a unary Response Stream delivers nothing, one error, or one
\* value; the value is followed by completion and nothing else, except when the
\* consumer unsubscribed while handling the value, and then nothing follows it.
C1_UnaryAtMostOneValue ==
    IsUnary =>
        \/ TypesOf(Delivered) \in {<<>>, <<"error">>, <<"next", "complete">>}
        \/ TypesOf(Delivered) = <<"next">> /\ hist.cancelled

\* the callback reported a value, then reported something again
C1_Witness ==
    /\ IsUnary
    /\ TypesOf(Delivered) = <<"next", "complete">>
    /\ lastOp.name = "CallbackError"

\* ------------------------------------------------------------------ C2
\* C2: in a streaming invocation every delivered value precedes the terminal
\* event: no value sits after an error or a completion in what the consumer got.
C2_ValuesPrecedeTerminal ==
    IsStreaming =>
        \A i \in 1..Len(Delivered) :
            IsTerminal(Delivered[i]) =>
                \A j \in (i + 1)..Len(Delivered) : Delivered[j].type # "next"

\* a 'data' event fired after an error was delivered
C2_Witness ==
    /\ IsStreaming
    /\ Len(Delivered) >= 1
    /\ Delivered[Len(Delivered)].type = "error"
    /\ lastOp.name = "CallData"

\* ------------------------------------------------------------------ C3
\* C3: the consumer receives at most one terminal event, and it is the last
\* event it receives.
C3_AtMostOneTerminal ==
    /\ Count(Delivered, "error") + Count(Delivered, "complete") <= 1
    /\ \A i \in 1..Len(Delivered) : IsTerminal(Delivered[i]) => i = Len(Delivered)

\* 'end' fired after an error was delivered
C3_Witness ==
    /\ IsStreaming
    /\ Len(Delivered) >= 1
    /\ Delivered[Len(Delivered)].type = "error"
    /\ lastOp.name = "CallEnd"

\* ------------------------------------------------------------------ C4
\* C4: once the consumer has cancelled before the terminal event with the
\* Call Handle not finished, cancel() has been invoked exactly once, however
\* often the consumer repeats the cancellation.
C4_CancelExactlyOnce == ConsumerCancelled => call.cancelCalls = 1

\* the consumer cancelled, then cancelled again
C4_Witness ==
    /\ ConsumerCancelled
    /\ hist.unsubscribes >= 2
    /\ lastOp.name = "Unsubscribe"
    /\ call.cancelCalls = 1

\* ------------------------------------------------------------------ C5
\* C5: in a step that starts after the consumer has unsubscribed, no value is
\* delivered to the consumer.
C5_NoValueAfterUnsubscribe ==
    [][hist.unsubscribes >= 1
         => Count(observer'.delivered, "next") = Count(observer.delivered, "next")]_vars

\* the completion callback reported a value after the consumer unsubscribed
C5_Witness ==
    /\ IsUnary
    /\ hist.unsubscribes >= 1
    /\ Delivered = <<>>
    /\ lastOp.name = "CallbackValue"
\* ------------------------------------------------------------------ C6
\* a step in which the transport reports a cancelled-class error
CancelledErrorStep ==
    /\ lastOp'.name \in {"CallError", "CallbackError"}
    /\ IsCancelledClass(lastOp'.error)

\* C6: once the consumer has cancelled the invocation (cancel() was issued),
\* a cancelled-class error the transport reports delivers nothing to the
\* consumer.
C6_CancelledErrorSuppressed ==
    [][(ConsumerCancelled /\ CancelledErrorStep)
         => observer'.delivered = observer.delivered]_vars

\* the plain unary callback reported a cancelled-class error after the cancel
C6_Witness ==
    /\ closure.kind = "unaryPlain"
    /\ ConsumerCancelled
    /\ call.cancelCalls = 1
    /\ lastOp.name = "CallbackError"
    /\ IsCancelledClass(lastOp.error)

\* ------------------------------------------------------------------ C7
\* C7: a cancelled-class error reported while the consumer is still subscribed
\* delivers exactly one event to it, the error as normalized by serializeError.
C7_PeerCancelSurfaced ==
    [][(~observer.closed /\ CancelledErrorStep)
         => observer'.delivered =
                Append(observer.delivered, ErrorEvent(serializeError(lastOp'.error)))]_vars

\* a call error with details 'Cancelled' reached a consumer that never cancelled
C7_Witness ==
    /\ IsStreaming
    /\ hist.unsubscribes = 0
    /\ lastOp.name = "CallError"
    /\ lastOp.error.details = GRPC_CANCELLED
    /\ Len(Delivered) >= 1
    /\ Delivered[Len(Delivered)] = ErrorEvent(serializeError(lastOp.error))
    /\ call.destroyCalls = 1

\* ------------------------------------------------------------------ C8
\* C8: a teardown that runs while the Call Handle is finished invokes no
\* cancel() and leaves the Cancellation State false; when it is the consumer's
\* unsubscribe, the Call Handle and the consumer's history stay as they were
\* and only the Upstream Subscription is released.
C8_TeardownAfterFinished ==
    [][(observer'.teardowns = observer.teardowns + 1 /\ call.finished)
         => /\ call'.cancelCalls = call.cancelCalls
            /\ ~closure'.isClientCanceled
            /\ lastOp'.name = "Unsubscribe"
                 => /\ call' = call
                    /\ observer'.delivered = observer.delivered
                    /\ closure'.kind = closure.kind
                    /\ upstream'.closed = upstream.subscribed
                    /\ upstream'.received = upstream.received]_vars

\* the consumer unsubscribed from a finished call that had an open Upstream
\* Subscription
C8_Witness ==
    /\ hist.cancelled
    /\ hist.finishedAtCancel
    /\ lastOp.name = "Unsubscribe"
    /\ hist.unsubscribes = 1
    /\ upstream.unsubscribeCalls = 1
    /\ ~upstream.completed
    /\ call.cancelCalls = 0

\* ------------------------------------------------------------------ C9
\* C9: with requestStream = true and a first argument that has a subscribe
\* function, the call is opened once, the writes on the Call Handle are the
\* values the Upstream Subscription received, one each and in that order, and
\* end() has been issued once if the request stream has completed and not at
\* all otherwise.
C9_RequestStreamForwarded ==
    (call.open /\ method.requestStream /\ isUpstreamSubject(args))
        => /\ call.opens = 1
           /\ upstream.subscribed
           /\ call.writes = upstream.received
           /\ call.endCalls = IF upstream.completed THEN 1 ELSE 0

\* two different request values were written, then the request stream completed
C9_Witness ==
    /\ method.requestStream
    /\ isUpstreamSubject(args)
    /\ call.writes = <<"v2", "v1">>
    /\ upstream.completed
    /\ call.endCalls = 1
    /\ lastOp.name = "UpstreamComplete"

\* ------------------------------------------------------------------ C10
\* the positional arguments the adapter adds after the caller's
IsPrefix(s, t) == Len(s) <= Len(t) /\ SubSeq(t, 1, Len(s)) = s

\* C10: with a first argument that has no subscribe function, the call is
\* opened with the caller's positional arguments unchanged and in place, there
\* is no Upstream Subscription, and write() and end() are never issued.
C10_PlainArgsPassThrough ==
    (call.open /\ ~isUpstreamSubject(args))
        => /\ IsPrefix(args, call.args)
           /\ (IsStreaming => call.args = args)
           /\ (IsUnary => call.args = args \o <<"callback">>)
           /\ ~upstream.subscribed
           /\ closure.upstreamSubscription = "null"
           /\ call.writes = <<>>
           /\ call.endCalls = 0
           /\ call.emitted = 0

\* a request-streaming method invoked with a plain request and metadata, after
\* the call has run to its end
C10_Witness ==
    /\ method.requestStream
    /\ IsStreaming
    /\ args = <<"plain", "metadata">>
    /\ call.args = <<"plain", "metadata">>
    /\ Len(Delivered) >= 1
    /\ Delivered[Len(Delivered)].type = "complete"

\* ------------------------------------------------------------------ C11
\* C11: the adapter of an invocation is the Streaming Adapter exactly when the
\* method's responseStream flag is true, whatever its requestStream flag; the
\* choice is the one made when the service method was built, and until the
\* consumer subscribes no call has been opened.
C11_RoutesOnResponseStream ==
    /\ serviceMethod = "stream" <=> method.responseStream
    /\ closure.kind # "none" => (IsStreaming <=> method.responseStream)
    /\ closure.kind # "none" => (IsUnary <=> ~method.responseStream)
    /\ subscribes = 0 => (~call.open /\ call.opens = 0 /\ opened = 0)

\* a client-streaming method (requestStream only) served by the Unary Adapter
C11_Witness ==
    /\ method.requestStream
    /\ ~method.responseStream
    /\ closure.kind = "unaryStream"
    /\ TypesOf(Delivered) = <<"next", "complete">>

NotSupportedMessages ==
    {"The \"status\" attribute is not supported by the gRPC transport",
     "The \"connect()\" method is not supported in gRPC mode.",
     "Method is not supported in gRPC mode. Use ClientGrpc instead (learn more in the documentation).",
     "Method is not supported in gRPC mode."}
\* the members declared async: their error comes back as a rejected promise
AsyncOps == {"connect", "dispatchEvent"}

\* C13 as stated: every unsupported operation has thrown synchronously at its
\* call site.
C13_AllThrowSynchronously ==
    lastOp.name \in UnsupportedOps
        => outcome.how = "throw" /\ outcome.message \in NotSupportedMessages

\* C13 amended: send, publish, on, unwrap and reading status throw a
\* not-supported error synchronously; connect and dispatchEvent, which are
\* async, hand back a promise rejected with a not-supported error; in every
\* state none of them changes the client registry or the invocation.
C13_UnsupportedFailFast ==
    [][lastOp'.name \in UnsupportedOps
         => /\ outcome'.message \in NotSupportedMessages
            /\ outcome'.how = IF lastOp'.name \in AsyncOps THEN "reject" ELSE "throw"
            /\ registry' = registry
            /\ invocation' = invocation]_vars

\* dispatchEvent was used while an invocation was delivering values
C13_Witness ==
    /\ lastOp.name = "dispatchEvent"
    /\ outcome.how = "reject"
    /\ call.open
    /\ ~observer.closed
    /\ Len(Delivered) = 1
    /\ registry.clients = {"HeroService"}

\* ------------------------------------------------------------------ C14
\* C14: an invocation that created an Upstream Subscription calls its
\* unsubscribe() at most once, and once the Response Stream has terminated or
\* been cancelled the Upstream Subscription is closed by exactly one such call;
\* an invocation without one never calls it.
C14_UpstreamReleasedOnce ==
    /\ upstream.unsubscribeCalls <= 1
    /\ ~upstream.subscribed => upstream.unsubscribeCalls = 0
    /\ (upstream.subscribed /\ observer.closed)
           => upstream.closed /\ upstream.unsubscribeCalls = 1

\* the call ended, the stream completed, and the consumer unsubscribed after it
C14_Witness ==
    /\ IsStreaming
    /\ upstream.subscribed
    /\ lastOp.name = "Unsubscribe"
    /\ Count(Delivered, "complete") = 1
    /\ hist.unsubscribes = 1
    /\ upstream.unsubscribeCalls = 1
    /\ closure.upstreamSubscription = "null"

\* ------------------------------------------------------------------ C15
\* the adapter's 'data', 'error' and 'end' listeners were removed from a
\* streaming call
ListenersRemoved == IsStreaming /\ call.open /\ call.listeners = {}
\* releases of the Call Handle so far: destroy(), cancel(), removeAllListeners()
Releases ==
    call.destroyCalls + call.cancelCalls + (IF ListenersRemoved THEN 1 ELSE 0)

\* C15: once the Response Stream has ended (completion, surfaced error or
\* consumer cancellation) the Call Handle has been released exactly once.
C15_CallReleasedExactlyOnce ==
    (call.open /\ observer.closed) => Releases = 1

\* ------------------------------------------------------------------ C16
\* C16: in the streaming adapter, once the Response Stream has delivered its
\* terminal event (completion or error) no adapter listener remains registered
\* on the Call Handle.
C16_ListenersRemovedAtTerminal ==
    (IsStreaming /\ \E i \in 1..Len(Delivered) : IsTerminal(Delivered[i]))
        => call.listeners = {}

\* ------------------------------------------------------------------ C17
\* a step in which a unary completion callback reports, as the first outcome of
\* the call, a cancelled-class error
UnaryCancelledStep ==
    /\ IsUnary
    /\ lastOp'.name = "CallbackError"
    /\ IsCancelledClass(lastOp'.error)
    /\ Count(Delivered, "error") + Count(Delivered, "complete") = 0

\* C17: in both unary forms a cancelled-class error from the completion
\* callback calls destroy() on the Call Handle whether or not the consumer
\* cancelled, and delivers the normalized error exactly when the consumer did
\* not cancel.
C17_UnaryCancelledDestroys ==
    [][UnaryCancelledStep
         => /\ call'.destroyCalls = call.destroyCalls + 1
            /\ IF hist.cancelled
               THEN observer'.delivered = observer.delivered
               ELSE observer'.delivered =
                        Append(observer.delivered,
                               ErrorEvent(serializeError(lastOp'.error)))]_vars

\* ------------------------------------------------------------------ C18
\* C18: isClientCanceled is true, or cancel() has been issued on the Call
\* Handle, only if the consumer itself unsubscribed before a terminal event.
C18_CancelOnlyByConsumer ==
    (closure.isClientCanceled \/ call.cancelCalls > 0) => hist.cancelled

\* ------------------------------------------------------------------ C19
\* C19 as stated: no call is opened before the consumer first attaches, and
\* however often the consumer attaches to the same Response Stream at most one
\* Call Handle and at most one Upstream Subscription are ever created for it.
C19_OneCallPerResponseStream ==
    /\ subscribes = 0 => opened = 0
    /\ opened <= 1
    /\ upstreams <= 1

\* C19 amended: no call is opened before the consumer first attaches; every
\* attachment opens exactly one Call Handle of its own and at most one
\* Upstream Subscription of its own.
C19_OneCallPerSubscription ==
    /\ subscribes = 0 => (opened = 0 /\ upstreams = 0 /\ ~call.open)
    /\ opened = subscribes
    /\ upstreams <= subscribes
    /\ call.opens <= 1
    /\ subscribes > 0 => (call.open /\ call.opens = 1)
    /\ upstream.subscribed => upstreams >= 1

\* the consumer attached a second time, after its first subscription ended
C19_Witness ==
    /\ subscribes = 2
    /\ opened = 2
    /\ upstreams = 2
    /\ lastOp.name = "Subscribe"
    /\ call.open
    /\ ~observer.closed
    /\ Delivered = <<>>

\* ------------------------------------------------------------------ C20
\* C20: once the teardown of an invocation has run, or cancel() has been
\* issued on its Call Handle, no step issues a further write(), end() or
\* forwarded error on that Call Handle, whatever the request stream does.
C20_NoRequestAfterTeardown ==
    [][(observer.closed \/ call.cancelCalls > 0)
         => /\ call'.writes = call.writes
            /\ call'.endCalls = call.endCalls
            /\ call'.emitted = call.emitted]_vars

\* the request stream emitted a value after the consumer had cancelled a
\* client-streaming unary call: nothing was written
C20_Witness ==
    /\ closure.kind = "unaryStream"
    /\ upstream.subscribed
    /\ hist.cancelled
    /\ call.cancelCalls = 1
    /\ observer.closed
    /\ lastOp.name = "UpstreamNext"
    /\ call.writes = <<>>
    /\ call.endCalls = 0

====
